---- MODULE Spec2Model ----
(***************************************************************************)
(* Model of the simulated IP router of ElficTitious/fragmentacion:         *)
(* utilities.py (IPHeader codec, fragment_ip_packet, reassemble_ip_packet, *)
(* RoundRobinRoutingTable) and the receive loop of router.py.              *)
(*                                                                         *)
(* Text is a sequence of characters, a character is a one-element string   *)
(* ("a", ",", "7") or the two-byte character EAcute.  Bytes are strings    *)
(* too: an ASCII byte is its character, the two bytes of EAcute are "C3"   *)
(* and "A9".  A Python exception is the value of the field exc of the      *)
(* record a function returns ("none" when it returns normally).            *)
(*                                                                         *)
(* A Python function with local variables is written as a chain of         *)
(* operators, each passing the value of one local variable to the next.    *)
(***************************************************************************)
EXTENDS Integers, Sequences, FiniteSets, Bags, TLC

\* ------------------------------------------------------------------ text

Digits == <<"0", "1", "2", "3", "4", "5", "6", "7", "8", "9">>

IsDigit(c) == \E i \in 1..10 : Digits[i] = c

DigitVal(c) == (CHOOSE i \in 1..10 : Digits[i] = c) - 1

IsSpace(c) == c \in {" ", "\n", "\t"}

\* The one multi-byte character of the model, U+00E9, and its UTF-8 bytes.
EAcute == "U+00E9"

Utf8(c) == IF c = EAcute THEN <<"C3", "A9">> ELSE <<c>>

\* str.encode(): the UTF-8 bytes of a text (an ASCII text is its bytes).
RECURSIVE EncodeEach(_)
EncodeEach(text) ==
  IF text = <<>> THEN <<>> ELSE Utf8(Head(text)) \o EncodeEach(Tail(text))

Encode(text) ==
  IF \A i \in 1..Len(text) : text[i] # EAcute THEN text ELSE EncodeEach(text)

\* bytes.decode(): the text of a byte string; UnicodeDecodeError on a lead
\* byte without its continuation byte or a continuation byte on its own.
Decoded(c, rest) == [exc |-> rest.exc, text |-> <<c>> \o rest.text]

RECURSIVE DecodeEach(_)
DecodeEach(bytes) ==
  IF bytes = <<>> THEN [exc |-> "none", text |-> <<>>]
  ELSE IF Head(bytes) = "C3" /\ Len(bytes) >= 2 /\ bytes[2] = "A9"
  THEN Decoded(EAcute, DecodeEach(Tail(Tail(bytes))))
  ELSE IF Head(bytes) \in {"C3", "A9"}
  THEN [exc |-> "UnicodeDecodeError", text |-> <<>>]
  ELSE Decoded(Head(bytes), DecodeEach(Tail(bytes)))

Decode(bytes) ==
  IF \A i \in 1..Len(bytes) : bytes[i] \notin {"C3", "A9"}
  THEN [exc |-> "none", text |-> bytes]
  ELSE DecodeEach(bytes)

\* len(text.encode())
ByteLen(text) == Len(Encode(text))

\* Python's s[a:b] for a >= 0: a negative b counts from the end.
SliceStop(n, b) ==
  IF b < 0 THEN (IF n + b < 0 THEN 0 ELSE n + b) ELSE (IF b > n THEN n ELSE b)

PySlice(s, a, b) ==
  IF SliceStop(Len(s), b) <= a THEN <<>>
  ELSE SubSeq(s, a + 1, SliceStop(Len(s), b))

\* str(n) for an int n.
RECURSIVE NatToStr(_)
NatToStr(n) ==
  IF n < 10 THEN <<Digits[n + 1]>>
  ELSE NatToStr(n \div 10) \o <<Digits[(n % 10) + 1]>>

IntToStr(n) == IF n < 0 THEN <<"-">> \o NatToStr(0 - n) ELSE NatToStr(n)

RECURSIVE DigitsToNat(_)
DigitsToNat(s) ==
  IF s = <<>> THEN 0
  ELSE 10 * DigitsToNat(SubSeq(s, 1, Len(s) - 1)) + DigitVal(s[Len(s)])

RECURSIVE StripLeft(_)
StripLeft(s) ==
  IF s # <<>> /\ IsSpace(Head(s)) THEN StripLeft(Tail(s)) ELSE s

RECURSIVE StripRight(_)
StripRight(s) ==
  IF s # <<>> /\ IsSpace(s[Len(s)]) THEN StripRight(SubSeq(s, 1, Len(s) - 1))
  ELSE s

\* int(s): surrounding white space is ignored, one sign is allowed, then one
\* or more decimal digits; anything else raises ValueError.  (The alphabet
\* of the model has no "_", so digit grouping is not modelled.)
ParseDigits(ds, sign) ==
  IF ds # <<>> /\ \A i \in 1..Len(ds) : IsDigit(ds[i])
  THEN [exc |-> "none", val |-> sign * DigitsToNat(ds)]
  ELSE [exc |-> "ValueError", val |-> 0]

ParseSigned(t) ==
  IF t # <<>> /\ Head(t) \in {"-", "+"}
  THEN ParseDigits(Tail(t), IF Head(t) = "-" THEN 0 - 1 ELSE 1)
  ELSE ParseDigits(t, 1)

ParseInt(s) == ParseSigned(StripRight(StripLeft(s)))

\* sep.join(parts)
RECURSIVE Join(_, _)
Join(parts, sep) ==
  IF parts = <<>> THEN <<>>
  ELSE IF Len(parts) = 1 THEN parts[1]
  ELSE parts[1] \o <<sep>> \o Join(Tail(parts), sep)

\* text.split(sep): every occurrence of sep separates two parts.
FirstAt(text, sep) ==
  CHOOSE i \in 1..Len(text) :
    text[i] = sep /\ \A j \in 1..(i - 1) : text[j] # sep

RECURSIVE Split(_, _)
SplitAt(text, sep, first) ==
  <<SubSeq(text, 1, first - 1)>> \o Split(SubSeq(text, first + 1, Len(text)), sep)

Split(text, sep) ==
  IF \A i \in 1..Len(text) : text[i] # sep THEN <<text>>
  ELSE SplitAt(text, sep, FirstAt(text, sep))

\* ----------------------------------------------------------------- codec

\* The dataclass IPHeader.
IPHeader(ip_address, port, ttl, id, offset, size, flag, msg) ==
  [ip_address |-> ip_address, port |-> port, ttl |-> ttl, id |-> id,
   offset |-> offset, size |-> size, flag |-> flag, msg |-> msg]

NoHeader == IPHeader(<<>>, 0, 0, <<>>, 0, <<>>, FALSE, <<>>)

\* IPHeader.to_string
to_string(h) ==
  Join(<<h.ip_address, IntToStr(h.port), IntToStr(h.ttl), h.id,
         IntToStr(h.offset), h.size, IF h.flag THEN <<"1">> ELSE <<"0">>,
         h.msg>>, ",")

\* int(packet_contents_list[k]) for the 0-based index k: IndexError past the
\* end of the list, ValueError when the part is no number.
IntField(packet_contents_list, k) ==
  IF Len(packet_contents_list) > k THEN ParseInt(packet_contents_list[k + 1])
  ELSE [exc |-> "IndexError", val |-> 0]

\* The assignments of parse_ip_header in their order, the first exception
\* ending the call.
header_of(packet_contents_list, port, ttl, offset) ==
  IF port.exc # "none" THEN [exc |-> port.exc, hdr |-> NoHeader]
  ELSE IF ttl.exc # "none" THEN [exc |-> ttl.exc, hdr |-> NoHeader]
  ELSE IF Len(packet_contents_list) < 4 THEN [exc |-> "IndexError", hdr |-> NoHeader]
  ELSE IF offset.exc # "none" THEN [exc |-> offset.exc, hdr |-> NoHeader]
  ELSE IF Len(packet_contents_list) < 8 THEN [exc |-> "IndexError", hdr |-> NoHeader]
  ELSE [exc |-> "none",
        hdr |-> IPHeader(packet_contents_list[1], port.val, ttl.val,
                         packet_contents_list[4], offset.val,
                         packet_contents_list[6],
                         packet_contents_list[7] = <<"1">>,
                         packet_contents_list[8])]

parse_fields(packet_contents_list) ==
  header_of(packet_contents_list, IntField(packet_contents_list, 1),
            IntField(packet_contents_list, 2), IntField(packet_contents_list, 4))

\* parse_ip_header: split(',') has no limit, so msg is the eighth part and
\* the parts after it are left out.
parse_ip_header(ip_header) == parse_fields(Split(ip_header, ","))

\* generate_ip_header_size: the decimal digits, zero-padded on the left to
\* eight characters (longer when the number has more than eight digits).
RECURSIVE PadLeft(_)
PadLeft(s) == IF Len(s) < 8 THEN PadLeft(<<"0">> \o s) ELSE s

generate_ip_header_size(size) == PadLeft(IntToStr(size))

\* ------------------------------------------------- fragmentation, reassembly

\* What a function call does: it returns value (none: it returns None),
\* raises exc, or never returns (kind "diverge").
Return(v) == [kind |-> "return", exc |-> "none", none |-> FALSE, value |-> v]

ReturnNone == [kind |-> "return", exc |-> "none", none |-> TRUE, value |-> <<>>]

Raise(e) == [kind |-> "raise", exc |-> e, none |-> FALSE, value |-> <<>>]

Diverge == [kind |-> "diverge", exc |-> "none", none |-> FALSE, value |-> <<>>]

\* The text whose byte length the loop of fragment_ip_packet measures: the
\* header of a fragment at curr_frag_offset with the size placeholder and
\* flag 1, up to and including the comma before the payload.
fragment_header(p, curr_frag_offset) ==
  Join(<<p.ip_address, IntToStr(p.port), IntToStr(p.ttl), p.id,
         IntToStr(curr_frag_offset), <<"0", "0", "0", "0", "0", "0", "0", "0">>,
         <<"1">>, <<>>>>, ",")

\* curr_fragment_max_msg_len
curr_fragment_max_msg_len(p, mtu, offset_in_msg) ==
  mtu - ByteLen(fragment_header(p, p.offset + offset_in_msg))

\* curr_fragment_max_msg_len without the header length taken off.
curr_frag_msg_whole_mtu(p, mtu, offset_in_msg) ==
  PySlice(Encode(p.msg), offset_in_msg, offset_in_msg + mtu)

\* The payload bytes one iteration of the loop takes, from offset_in_msg.
curr_frag_msg(p, mtu, offset_in_msg) ==
  PySlice(Encode(p.msg), offset_in_msg,
          offset_in_msg + curr_fragment_max_msg_len(p, mtu, offset_in_msg))

\* The while loop of fragment_ip_packet.  An iteration that takes no byte
\* leaves offset_in_msg as it was, so the loop condition stays true and the
\* loop appends empty fragments for ever.
RECURSIVE fragment_loop(_, _, _, _)
fragment_append(p, mtu, offset_in_msg, fragments_list, taken, text) ==
  IF text.exc # "none" THEN Raise(text.exc)
  ELSE IF Len(taken) = 0 THEN Diverge
  ELSE fragment_loop(p, mtu, offset_in_msg + Len(taken),
         Append(fragments_list,
                IPHeader(p.ip_address, p.port, p.ttl, p.id,
                         p.offset + offset_in_msg,
                         generate_ip_header_size(Len(taken)), TRUE, text.text)))

fragment_take(p, mtu, offset_in_msg, fragments_list, taken) ==
  fragment_append(p, mtu, offset_in_msg, fragments_list, taken, Decode(taken))

fragment_loop(p, mtu, offset_in_msg, fragments_list) ==
  IF ~(offset_in_msg < ByteLen(p.msg)) THEN Return(fragments_list)
  ELSE fragment_take(p, mtu, offset_in_msg, fragments_list,
                     curr_frag_msg(p, mtu, offset_in_msg))

\* last_flag that leaves the flag of the last fragment as the loop set it.
last_flag_kept(parsed_flag, fragments_list) == fragments_list

\* fragments_list[-1].flag = False when the packet was no fragment.
last_flag(parsed_flag, fragments_list) ==
  IF parsed_flag THEN fragments_list
  ELSE [fragments_list EXCEPT ![Len(fragments_list)].flag = FALSE]

\* list(map(to_string, fragments_list))
to_strings(fragments_list) ==
  [i \in 1..Len(fragments_list) |-> to_string(fragments_list[i])]

\* fragment_ip_packet after its loop.
fragment_finish(parsed_flag, loop) ==
  IF loop.kind # "return" THEN loop
  ELSE IF ~parsed_flag /\ loop.value = <<>> THEN Raise("IndexError")
  ELSE Return(to_strings(last_flag(parsed_flag, loop.value)))

\* fragment_ip_packet once the packet is parsed.
fragment_parsed(parsed_ip_packet, mtu) ==
  IF parsed_ip_packet.exc # "none" THEN Raise(parsed_ip_packet.exc)
  ELSE fragment_finish(parsed_ip_packet.hdr.flag,
                       fragment_loop(parsed_ip_packet.hdr, mtu, 0, <<>>))

\* fragment_ip_packet without the test of the length against the MTU.
fragment_unfitted(ip_packet, mtu) ==
  fragment_parsed(parse_ip_header(ip_packet), mtu)

\* fragment_ip_packet
fragment_ip_packet(ip_packet, mtu) ==
  IF ByteLen(ip_packet) <= mtu THEN Return(<<ip_packet>>)
  ELSE fragment_parsed(parse_ip_header(ip_packet), mtu)

\* sorted(fragment_list, key=offset): stable, ascending.
RECURSIVE InsertByOffset(_, _)
InsertByOffset(sorted, h) ==
  IF sorted = <<>> THEN <<h>>
  ELSE IF sorted[Len(sorted)].offset <= h.offset THEN Append(sorted, h)
  ELSE Append(InsertByOffset(SubSeq(sorted, 1, Len(sorted) - 1), h),
              sorted[Len(sorted)])

RECURSIVE SortByOffset(_)
SortByOffset(list) ==
  IF list = <<>> THEN <<>>
  ELSE InsertByOffset(SortByOffset(SubSeq(list, 1, Len(list) - 1)),
                      list[Len(list)])

\* reassemble_loop without the check of the pair (curr_frag, next_frag).
RECURSIVE reassemble_loop_unchecked(_, _, _)
reassemble_loop_unchecked(fragment_list, i, total_msg) ==
  IF ~(i < Len(fragment_list) - 1)
  THEN [exc |-> "none", complete |-> TRUE, total_msg |-> total_msg]
  ELSE reassemble_loop_unchecked(fragment_list, i + 1,
                                 total_msg \o fragment_list[i + 2].msg)

\* The while loop of reassemble_ip_packet, from index i (0-based) with
\* fragment_list_is_complete true: the pair check and the payload collected.
RECURSIVE reassemble_loop(_, _, _)
\* reassemble_pair that lets a fragment follow one of its own offset.
reassemble_pair_repeated(fragment_list, i, total_msg, size) ==
  IF size.exc # "none"
  THEN [exc |-> size.exc, complete |-> FALSE, total_msg |-> <<>>]
  ELSE IF /\ fragment_list[i + 1].offset + size.val # fragment_list[i + 2].offset
          /\ fragment_list[i + 1].offset # fragment_list[i + 2].offset
  THEN [exc |-> "none", complete |-> FALSE, total_msg |-> total_msg]
  ELSE reassemble_loop(fragment_list, i + 1, total_msg)

reassemble_pair(fragment_list, i, total_msg, size) ==
  IF size.exc # "none"
  THEN [exc |-> size.exc, complete |-> FALSE, total_msg |-> <<>>]
  ELSE IF fragment_list[i + 1].offset + size.val # fragment_list[i + 2].offset
  THEN [exc |-> "none", complete |-> FALSE, total_msg |-> total_msg]
  ELSE reassemble_loop(fragment_list, i + 1, total_msg)

reassemble_loop(fragment_list, i, total_msg) ==
  IF ~(i < Len(fragment_list) - 1)
  THEN [exc |-> "none", complete |-> TRUE, total_msg |-> total_msg]
  ELSE reassemble_pair(fragment_list, i, total_msg \o fragment_list[i + 2].msg,
                       ParseInt(fragment_list[i + 1].size))

\* reassemble_ip_packet after its loop: the check of the last flag and the
\* packet made of the headers of the first fragment.
reassemble_finish(fragment_list, loop) ==
  IF loop.exc # "none" THEN Raise(loop.exc)
  ELSE IF loop.complete /\ ~fragment_list[Len(fragment_list)].flag
  THEN Return(to_string(
         IPHeader(fragment_list[1].ip_address, fragment_list[1].port,
                  fragment_list[1].ttl, fragment_list[1].id,
                  fragment_list[1].offset,
                  generate_ip_header_size(ByteLen(loop.total_msg)),
                  FALSE, loop.total_msg)))
  ELSE ReturnNone

\* reassemble_ip_packet on the sorted list: the loop runs while
\* fragment_list_is_complete, which starts as fragment_list[0].offset == 0.
reassemble_sorted(fragment_list) ==
  reassemble_finish(fragment_list,
    IF fragment_list[1].offset = 0
    THEN reassemble_loop(fragment_list, 0, fragment_list[1].msg)
    ELSE [exc |-> "none", complete |-> FALSE, total_msg |-> fragment_list[1].msg])

\* The exception of the first fragment that does not parse.
first_exc(parsed) ==
  parsed[CHOOSE i \in 1..Len(parsed) :
           /\ parsed[i].exc # "none"
           /\ \A j \in 1..(i - 1) : parsed[j].exc = "none"].exc

\* reassemble_ip_packet once the fragments are parsed.
reassemble_parsed(parsed) ==
  IF \E i \in 1..Len(parsed) : parsed[i].exc # "none" THEN Raise(first_exc(parsed))
  ELSE IF parsed = <<>> THEN Raise("IndexError")
  ELSE reassemble_sorted(SortByOffset([i \in 1..Len(parsed) |-> parsed[i].hdr]))

\* list(map(parse_ip_header, fragment_list))
parse_all(fragment_list) ==
  [i \in 1..Len(fragment_list) |-> parse_ip_header(fragment_list[i])]

\* reassemble_ip_packet
reassemble_ip_packet(fragment_list) == reassemble_parsed(parse_all(fragment_list))

\* ------------------------------------------------------- the routing table

\* ipaddress.IPv4Address(text): the 32-bit number of a dotted quad.
RECURSIVE QuadToInt(_, _)
QuadToInt(octets, acc) ==
  IF octets = <<>> THEN acc
  ELSE QuadToInt(Tail(octets), 256 * acc + ParseInt(Head(octets)).val)

\* str(ip) of an IPv4Address.
IpToStr(a) ==
  Join(<<IntToStr(a \div 16777216), IntToStr((a \div 65536) % 256),
         IntToStr((a \div 256) % 256), IntToStr(a % 256)>>, ".")

\* Every address of the network in ascending order, the network address and
\* the broadcast address included.
network_addresses(network, prefix) ==
  [i \in 1..(2 ^ (32 - prefix)) |-> IpToStr(network + i - 1)]

\* [str(ip) for ip in ipaddress.IPv4Network(cidr_net)].  (The route files
\* of the model name networks without host bits, which IPv4Network accepts.)
network_of(parts) ==
  network_addresses(QuadToInt(Split(parts[1], "."), 0), ParseInt(parts[2]).val)

possible_ip_addresses(cidr_net) == network_of(Split(cidr_net, "/"))

\* The dataclass RoutingTableLine made of the parts of a line.
RoutingTableLine(routing_table_line_contents_list) ==
  [possible_ip_addresses |->
     possible_ip_addresses(routing_table_line_contents_list[1]),
   initial_port |-> ParseInt(routing_table_line_contents_list[2]).val,
   final_port   |-> ParseInt(routing_table_line_contents_list[3]).val,
   landing_ip   |-> routing_table_line_contents_list[4],
   landing_port |-> ParseInt(routing_table_line_contents_list[5]).val,
   mtu          |-> ParseInt(routing_table_line_contents_list[6]).val]

\* parse_routing_table_line, of a line
\* "CIDR initial_port final_port landing_ip landing_port mtu".
parse_routing_table_line(routing_table_line) ==
  RoutingTableLine(Split(routing_table_line, " "))

\* CircularArrayWithPointer.__init__
CircularArrayWithPointer(data) ==
  [array |-> data, n |-> Len(data), pointer |-> 0]

NoHop == [forward_address |-> [ip |-> <<>>, port |-> 0], link_mtu |-> 0]

\* CircularArrayWithPointer.next with a pointer that stays where it is.
circular_next_stuck(c) ==
  IF c.n = 0 THEN [none |-> TRUE, value |-> NoHop, self |-> c]
  ELSE [none |-> FALSE, value |-> c.array[c.pointer + 1], self |-> c]

\* CircularArrayWithPointer.next: what it returns (none when the array is
\* empty) and the object afterwards.
circular_next(c) ==
  IF c.n = 0 THEN [none |-> TRUE, value |-> NoHop, self |-> c]
  ELSE IF c.pointer = c.n - 1
  THEN [none |-> FALSE, value |-> c.array[c.pointer + 1],
        self |-> [c EXCEPT !.pointer = 0]]
  ELSE [none |-> FALSE, value |-> c.array[c.pointer + 1],
        self |-> [c EXCEPT !.pointer = c.pointer + 1]]

\* line_matches with the final port of the range left out.
line_matches_below_final(routing_table_line, destination_address) ==
  /\ \E i \in 1..Len(routing_table_line.possible_ip_addresses) :
       routing_table_line.possible_ip_addresses[i] = destination_address.ip
  /\ destination_address.port \in
       routing_table_line.initial_port..(routing_table_line.final_port - 1)

\* Whether a line of the route file says how to forward to the destination.
line_matches(routing_table_line, destination_address) ==
  /\ \E i \in 1..Len(routing_table_line.possible_ip_addresses) :
       routing_table_line.possible_ip_addresses[i] = destination_address.ip
  /\ destination_address.port \in
       routing_table_line.initial_port..routing_table_line.final_port

\* One iteration of the loop of __generate_entry: the pair of the line
\* comes before those of the lines after it.
forward_append(routing_table_line, destination_address, rest) ==
  IF line_matches(routing_table_line, destination_address)
  THEN <<[forward_address |-> [ip   |-> routing_table_line.landing_ip,
                               port |-> routing_table_line.landing_port],
          link_mtu |-> routing_table_line.mtu]>> \o rest
  ELSE rest

\* The loop of RoundRobinRoutingTable.__generate_entry over the lines of
\* the file: forward_adresses_mtu_list.
RECURSIVE forward_adresses_mtu_list(_, _)
forward_adresses_mtu_list(routing_table_lines, destination_address) ==
  IF routing_table_lines = <<>> THEN <<>>
  ELSE forward_append(parse_routing_table_line(Head(routing_table_lines)),
                      destination_address,
                      forward_adresses_mtu_list(Tail(routing_table_lines),
                                                destination_address))

\* RoundRobinRoutingTable.__generate_entry: the table with the entry of the
\* destination installed.
generate_entry(table, routing_table_lines, destination_address) ==
  [d \in DOMAIN table \cup {destination_address} |->
     IF d = destination_address
     THEN CircularArrayWithPointer(
            forward_adresses_mtu_list(routing_table_lines, destination_address))
     ELSE table[d]]

\* hop_of that leaves the ring of the destination, as it is after the call,
\* in the entry of every destination.
hop_of_every(table, destination_address, got) ==
  [none |-> got.none, value |-> got.value,
   table |-> [d \in DOMAIN table |-> got.self]]

\* What next_hop returns and the table afterwards.
hop_of(table, destination_address, got) ==
  [none |-> got.none, value |-> got.value,
   table |-> [table EXCEPT ![destination_address] = got.self]]

\* self.__table[destination_address].next()
table_next(table, destination_address) ==
  hop_of(table, destination_address, circular_next(table[destination_address]))

\* RoundRobinRoutingTable.next_hop (and the function next_hop that calls it).
next_hop(table, routing_table_lines, destination_address) ==
  table_next(IF destination_address \in DOMAIN table THEN table
             ELSE generate_entry(table, routing_table_lines, destination_address),
             destination_address)

\* RoundRobinRoutingTable.__init__: an empty table.
EmptyTable == [d \in {} |-> CircularArrayWithPointer(<<>>)]

\* line.strip('\n'): the newlines at both ends are taken off.
RECURSIVE strip_newline(_)
strip_newline(line) ==
  IF line # <<>> /\ line[Len(line)] = "\n"
  THEN strip_newline(SubSeq(line, 1, Len(line) - 1))
  ELSE IF line # <<>> /\ Head(line) = "\n" THEN strip_newline(Tail(line))
  ELSE line

\* ----------------------------------------------------------------- state

VARIABLES
  step,           \* which call was made last
  ip_header,      \* the input datagram, an IPHeader
  mtu,            \* the input MTU
  ip_packet,      \* ip_header.to_string()
  parsed,         \* what parse_ip_header(ip_packet) returned
  fragments,      \* what fragment_ip_packet(ip_packet, mtu) did
  fragment_list,  \* the collection handed to reassemble_ip_packet
  reassembled,    \* what reassemble_ip_packet(fragment_list) did
  round_trip,     \* parse_ip_header(ip_packet).to_string()
  refragmented,   \* a fragment of fragments split again, and what
                  \* reassemble_ip_packet did with the list
  round_robin_routing_table,  \* per router: destination -> CircularArrayWithPointer
  fragment_dict,  \* per router: id -> the fragments received so far
  status,         \* per router: "running", "raised" (the process ended
                  \* with an exception) or "diverged" (it never returns)
  net,            \* the UDP datagrams in flight, a bag of [to, data, hops]:
                  \* hops is no part of the datagram, it counts the times
                  \* routers have forwarded it since the sender sent it
  sent_count,     \* how many datagrams the sender has sent
  last,           \* what the last iteration of a receive loop did
  arrived,        \* the iterations of a router on the fragments of a train
  routing_table_file_name,  \* the route file of a RoundRobinRoutingTable
  table,          \* its __table: destination -> CircularArrayWithPointer
  returned        \* per destination: what its calls of next_hop returned

fn_vars == <<step, ip_header, mtu, ip_packet, parsed, fragments,
             fragment_list, reassembled, round_trip, refragmented>>

router_vars == <<round_robin_routing_table, fragment_dict, status, net,
                 sent_count, last, arrived>>

table_vars == <<routing_table_file_name, table, returned>>

vars == <<fn_vars, router_vars, table_vars>>

\* A datagram that satisfies the invariants of the data model: size is the
\* eight-digit byte length of the payload.
Datagram(ip, port, ttl, id, offset, flag, msg) ==
  IPHeader(ip, port, ttl, id, offset, generate_ip_header_size(ByteLen(msg)),
           flag, msg)

\* ------------------------------------------------------- the router network
\* Two routers on one host, as router.py is started twice: A on port 8001
\* and B on port 8002.  A has two routes to B, over a link of MTU 34 and
\* over a link of MTU 1024 (round robin); the datagrams for the network
\* 10.0.0.2/31 go from A to B and from B back to A.

Routers == {"A", "B"}

RouterIP == <<"1", "0", ".", "0", ".", "0", ".", "1">>

router_IP(r) == RouterIP

router_port(r) == IF r = "A" THEN 8001 ELSE 8002

router_address(r) == [ip |-> router_IP(r), port |-> router_port(r)]

\* buff_size of router.py
buff_size == 1024

Net30 == <<"1", "0", ".", "0", ".", "0", ".", "0", "/", "3", "0">>

Net32 == <<"1", "0", ".", "0", ".", "0", ".", "1", "/", "3", "2">>

Net31 == <<"1", "0", ".", "0", ".", "0", ".", "2", "/", "3", "1">>

\* An address of 10.0.0.2/31, and an address no route file covers.
LoopIP == <<"1", "0", ".", "0", ".", "0", ".", "3">>

FarIP == <<"1", "0", ".", "0", ".", "0", ".", "9">>

\* One line of a route file, with its newline.
RouteLine(cidr, initial_port, final_port, landing_port, link_mtu) ==
  Join(<<cidr, IntToStr(initial_port), IntToStr(final_port), RouterIP,
         IntToStr(landing_port), IntToStr(link_mtu)>>, " ") \o <<"\n">>

\* The route files, as readlines() returns them: those of the routers A
\* and B, and a file C with three routes to one destination.
routing_table_file(name) ==
  IF name = "A"
  THEN <<RouteLine(Net30, 8002, 8003, 8002, 34),
         RouteLine(Net32, 8002, 8002, 8002, 1024),
         RouteLine(Net31, 9000, 9000, 8002, 1024)>>
  ELSE IF name = "B"
  THEN <<RouteLine(Net31, 9000, 9000, 8001, 1024)>>
  ELSE <<RouteLine(Net30, 8001, 8002, 8001, 40),
         RouteLine(Net31, 8002, 8002, 8002, 50),
         RouteLine(Net30, 8002, 8002, 8003, 60),
         RouteLine(Net32, 8002, 8002, 8004, 70)>>

\* The lines the loop of __generate_entry parses.
routing_table_lines(name) ==
  [i \in 1..Len(routing_table_file(name)) |->
     strip_newline(routing_table_file(name)[i])]

\* What one iteration of the receive loop does: the branch it takes, the
\* exception that ends it ("diverge": it never ends), the datagrams it
\* sends, the lines it prints on standard output, and fragment_dict and the
\* routing table after it.
Iteration(branch, exc, dict, routes, sent, stdout) ==
  [branch |-> branch, exc |-> exc, fragment_dict |-> dict,
   round_robin_routing_table |-> routes, sent |-> sent, stdout |-> stdout]

\* fragment_dict[ip_header.id] after the append of router.py:63-67.
appended(dict, id, text) ==
  (IF id \in DOMAIN dict THEN dict[id] ELSE <<>>) \o <<text>>

\* router.py:73-75: a reassembled datagram is printed and its list popped;
\* otherwise the list stays, with the datagram appended.
local_reassembled(text, hdr, dict, routes, reassembled_datagram) ==
  IF reassembled_datagram.kind = "raise"
  THEN Iteration("local", reassembled_datagram.exc, dict, routes, <<>>, <<>>)
  ELSE IF ~reassembled_datagram.none
  THEN Iteration("delivered", "none",
                 [k \in DOMAIN dict \ {hdr.id} |-> dict[k]], routes, <<>>,
                 <<[kind |-> "msg",
                    text |-> parse_ip_header(reassembled_datagram.value).hdr.msg]>>)
  ELSE Iteration("stored", "none",
                 [k \in DOMAIN dict \cup {hdr.id} |->
                    IF k = hdr.id THEN appended(dict, hdr.id, text) ELSE dict[k]],
                 routes, <<>>, <<>>)

\* The branch of the loop for a datagram addressed to this router.
local_iteration(text, hdr, dict, routes) ==
  local_reassembled(text, hdr, dict, routes,
                    reassemble_ip_packet(appended(dict, hdr.id, text)))

\* router.py:94-106: the forwarding line is printed, ip_header.ttl is
\* decremented and not read again, and the fragments made of the text
\* received are sent to forward_address.
transit_send(hdr, dict, hop, frags) ==
  IF frags.kind = "raise"
  THEN Iteration("transit", frags.exc, dict, hop.table, <<>>,
                 <<[kind |-> "forward", text |-> hdr.ip_address]>>)
  ELSE IF frags.kind = "diverge"
  THEN Iteration("transit", "diverge", dict, hop.table, <<>>,
                 <<[kind |-> "forward", text |-> hdr.ip_address]>>)
  ELSE Iteration("forwarded", "none", dict, hop.table,
                 [i \in 1..Len(frags.value) |->
                    [to   |-> hop.value.forward_address,
                     data |-> Encode(frags.value[i])]],
                 <<[kind |-> "forward", text |-> hdr.ip_address]>>)

\* transit_hop that appends the datagram to fragment_dict as the local
\* branch does.
transit_hop_grouped(text, hdr, dict, hop) ==
  IF hop.none THEN Iteration("transit", "TypeError", dict, hop.table, <<>>, <<>>)
  ELSE transit_send(hdr,
                    [k \in DOMAIN dict \cup {hdr.id} |->
                       IF k = hdr.id THEN appended(dict, hdr.id, text)
                       ELSE dict[k]],
                    hop, fragment_ip_packet(text, hop.value.link_mtu))

\* router.py:81-84: the pair (forward_address, link_mtu) is unpacked from
\* what next_hop returns, which raises TypeError when it returns None; the
\* lines 88-90, which print that there is no route, are not reached.
transit_hop(text, hdr, dict, hop) ==
  IF hop.none THEN Iteration("transit", "TypeError", dict, hop.table, <<>>, <<>>)
  ELSE transit_send(hdr, dict, hop, fragment_ip_packet(text, hop.value.link_mtu))

\* The branch of the loop for a datagram addressed to another node.
transit_iteration(r, text, hdr, dict, routes) ==
  transit_hop(text, hdr, dict,
              next_hop(routes, routing_table_lines(r),
                       [ip |-> hdr.ip_address, port |-> hdr.port]))

\* The ttl check of router.py:54 with ttl = 0 let through.
expired_negative(hdr) == hdr.ttl < 0

\* router.py:54
expired(hdr) == hdr.ttl <= 0

\* router.py:48-59: an exception of parse_ip_header ends the loop; an
\* expired datagram is skipped; the others go to one of the two branches.
parsed_iteration(r, text, header, dict, routes) ==
  IF header.exc # "none"
  THEN Iteration("parse", header.exc, dict, routes, <<>>, <<>>)
  ELSE IF expired(header.hdr)
  THEN Iteration("expired", "none", dict, routes, <<>>, <<>>)
  ELSE IF /\ header.hdr.ip_address = router_IP(r)
          /\ header.hdr.port = router_port(r)
  THEN local_iteration(text, header.hdr, dict, routes)
  ELSE transit_iteration(r, text, header.hdr, dict, routes)

\* ip_header_buffer.decode()
decoded_iteration(r, decoded, dict, routes) ==
  IF decoded.exc # "none"
  THEN Iteration("parse", decoded.exc, dict, routes, <<>>, <<>>)
  ELSE parsed_iteration(r, decoded.text, parse_ip_header(decoded.text),
                        dict, routes)

\* The body of the while loop of router.py for the bytes of one datagram:
\* recvfrom(buff_size) keeps the first buff_size bytes.
loop_iteration(r, data, dict, routes) ==
  decoded_iteration(r, Decode(PySlice(data, 0, buff_size)), dict, routes)

\* Most datagrams the sender sends.
MaxSent == 3

\* The count of hops of a datagram in flight stops here.
MaxHops == 3

\* A well-formed datagram as the bytes on the wire.
Wire(ip, port, ttl, id, offset, flag, msg) ==
  Encode(to_string(Datagram(ip, port, ttl, id, offset, flag, msg)))

\* What a sender like prueba_router.py sends, all of it to router A:
\* datagrams for B, for A itself (a train of two fragments, and a datagram
\* with a comma in its payload), for the looping network and for a node
\* without route, expired datagrams, and two malformed ones.
Injectable ==
  {Wire(RouterIP, 8002, 3, <<"a">>, 0, FALSE, <<"a", "b", "c", "d", "e", "f">>),
   Wire(RouterIP, 8001, 3, <<"b">>, 0, TRUE, <<"h", "i">>),
   Wire(RouterIP, 8001, 3, <<"b">>, 2, FALSE, <<"!">>),
   Wire(RouterIP, 8001, 3, <<"g">>, 0, FALSE, <<"a", ",", "b">>),
   Wire(LoopIP, 9000, 2, <<"c">>, 0, FALSE, <<"x">>),
   Wire(FarIP, 9000, 3, <<"d">>, 0, FALSE, <<"y">>),
   Wire(RouterIP, 8002, 0, <<"e">>, 0, FALSE, <<"z">>),
   Wire(RouterIP, 8001, 0 - 1, <<"e">>, 0, FALSE, <<"z">>),
   Encode(Join(<<RouterIP, <<"8", "0", "0", "1">>, <<"3">>, <<"f">>>>, ",")),
   Encode(Join(<<RouterIP, <<"8", "0", "0", "1">>, <<"x">>, <<"f">>, <<"0">>,
                 generate_ip_header_size(1), <<"0">>, <<"w">>>>, ","))}

\* What the variable last keeps of an iteration of router r on the bytes
\* data: what it did, and fragment_dict and the routing table before it.
Record(r, data, it, dict, routes) ==
  [router |-> r, data |-> data, branch |-> it.branch, exc |-> it.exc,
   sent |-> it.sent, stdout |-> it.stdout,
   fragment_dict |-> dict, round_robin_routing_table |-> routes]

NoIteration ==
  Record("none", <<>>, Iteration("none", "none", <<>>, <<>>, <<>>, <<>>),
         <<>>, <<>>)

\* router.py:36-39 in every router, and nothing sent yet.
RouterStart ==
  /\ round_robin_routing_table = [r \in Routers |-> EmptyTable]
  /\ fragment_dict = [r \in Routers |-> [k \in {} |-> <<>>]]
  /\ status = [r \in Routers |-> "running"]
  /\ net = EmptyBag
  /\ sent_count = 0
  /\ last = NoIteration
  /\ arrived = <<>>

\* No fragment was split again.
NotRefragmented ==
  [index |-> 0, mtu |-> 0,
   fragments |-> [kind |-> "none", exc |-> "none", none |-> FALSE, value |-> <<>>],
   fragment_list |-> <<>>,
   reassembled |-> [kind |-> "none", exc |-> "none", none |-> FALSE, value |-> <<>>]]

FnIdle ==
  /\ step = "idle"
  /\ ip_header = NoHeader
  /\ mtu = 0
  /\ fragment_list = <<>>
  /\ ip_packet = <<>>
  /\ parsed = [exc |-> "not called", hdr |-> NoHeader]
  /\ fragments = [kind |-> "none", exc |-> "none", none |-> FALSE, value |-> <<>>]
  /\ reassembled = [kind |-> "none", exc |-> "none", none |-> FALSE, value |-> <<>>]
  /\ round_trip = <<>>
  /\ refragmented = NotRefragmented

TableIdle ==
  /\ routing_table_file_name = "none"
  /\ table = EmptyTable
  /\ returned = [d \in {} |-> <<>>]

\* prueba_router.py:39-42: conn_socket.sendto(ip_header.encode(), (initial
\* router)).  A datagram for a process that has ended is lost.
Inject ==
  /\ sent_count < MaxSent
  /\ status["A"] = "running"
  /\ \E data \in Injectable :
       net' = net (+) SetToBag({[to |-> router_address("A"), data |-> data,
                                 hops |-> 0]})
  /\ sent_count' = sent_count + 1
  /\ UNCHANGED <<round_robin_routing_table, fragment_dict, status, last, arrived>>
  /\ UNCHANGED <<fn_vars, table_vars>>

\* The datagrams the iteration sent that reach a socket: those for a
\* router whose process has not ended.
listening(address) ==
  \E r \in Routers : router_address(r) = address /\ status[r] # "raised"

Delivered(sent, hops) ==
  [p \in {[to |-> sent[i].to, data |-> sent[i].data, hops |-> hops] :
            i \in {j \in 1..Len(sent) : listening(sent[j].to)}} |->
     Cardinality({i \in 1..Len(sent) :
                    sent[i].to = p.to /\ sent[i].data = p.data})]

\* The hops of what a router sends for a datagram it received.
one_more_hop(pkt) == IF pkt.hops < MaxHops THEN pkt.hops + 1 ELSE MaxHops

\* What stays in flight when the process listening on address ends: its
\* socket is closed and the datagrams queued for it are lost.
Undelivered(bag, address) ==
  [p \in {q \in BagToSet(bag) : q.to # address} |-> bag[p]]

\* The effect of the iteration it of router r on the datagram pkt.
iterate(r, pkt, it) ==
  /\ last' = Record(r, pkt.data, it, fragment_dict[r],
                    round_robin_routing_table[r])
  /\ status' = [status EXCEPT ![r] =
                  IF it.exc = "none" THEN "running"
                  ELSE IF it.exc = "diverge" THEN "diverged"
                  ELSE "raised"]
  /\ fragment_dict' = [fragment_dict EXCEPT ![r] = it.fragment_dict]
  /\ round_robin_routing_table' =
       [round_robin_routing_table EXCEPT ![r] = it.round_robin_routing_table]
  /\ net' = IF it.exc \notin {"none", "diverge"}
            THEN Undelivered(net, router_address(r))
            ELSE (net (-) SetToBag({pkt}))
                   (+) Delivered(it.sent, one_more_hop(pkt))

\* One iteration of the receive loop of router r: recvfrom returns one of
\* the datagrams in flight for r, in any order.
recvfrom(r) ==
  /\ status[r] = "running"
  /\ \E pkt \in BagToSet(net) :
       /\ pkt.to = router_address(r)
       /\ iterate(r, pkt, loop_iteration(r, pkt.data, fragment_dict[r],
                                         round_robin_routing_table[r]))

Receive(r) ==
  /\ recvfrom(r)
  /\ UNCHANGED <<sent_count, arrived>>
  /\ UNCHANGED <<fn_vars, table_vars>>

Init == FnIdle /\ RouterStart /\ TableIdle

Next == Inject \/ \E r \in Routers : Receive(r)

Spec == Init /\ [][Next]_vars

\* ------------------------------------------------------- the pure functions
\* FnSpec applies the codec, the fragmenter and the reassembler to inputs
\* drawn from bounded sets.

\* Longest payload of an input datagram, in characters.
MaxLen == 11

\* MTUs run from one byte under the header of the input to MaxSlack over it.
MaxSlack == 4

\* Longest collection handed to the reassembler on its own.
MaxFragments == 3

Alphabet == <<"a", "b", "c", "d", "e", "f", "g", "h", "i", "j", "k", "l", "m",
              "n", "o", "p">>

Payloads ==
  {SubSeq(Alphabet, 1, n) : n \in 0..MaxLen}
    \cup {<<"a", ",", "b">>, <<"a", EAcute>>, <<"a", ",", "b", ",", "c", "d">>,
          <<EAcute, EAcute>>}

Datagrams ==
  {Datagram(RouterIP, 8001, 5, <<"a">>, offset, flag, msg) :
     offset \in {0, 9}, flag \in BOOLEAN, msg \in Payloads}

\* The header bytes of a fragment that starts where d starts.
minimum_header_bytes(d) == ByteLen(fragment_header(d, d.offset))

MtuSet(d) == (minimum_header_bytes(d) - 1)..(minimum_header_bytes(d) + MaxSlack)

\* Fragments of one train, complete or not, as wire text.
FragmentPool ==
  {to_string(Datagram(RouterIP, 8001, 5, <<"a">>, offset, flag, msg)) :
     offset \in {0, 2}, flag \in BOOLEAN, msg \in {<<>>, <<"a", "b">>}}

Collections == UNION {[1..n -> FragmentPool] : n \in 1..MaxFragments}

NotCalled == [kind |-> "none", exc |-> "none", none |-> FALSE, value |-> <<>>]

NotParsed == [exc |-> "not called", hdr |-> NoHeader]

\* Wire texts of eight fields that are not what to_string writes: a port
\* with a leading zero, a ttl with a sign, a ttl between spaces, a flag
\* that is neither 0 nor 1; and one that to_string writes.
WireTexts ==
  {Join(<<RouterIP, port, ttl, <<"a">>, <<"0">>,
          generate_ip_header_size(1), flag, <<"x">>>>, ",") :
     port \in {<<"8", "0", "0", "1">>, <<"0", "8", "0", "0", "1">>},
     ttl \in {<<"5">>, <<"+", "5">>, <<" ", "5", " ">>},
     flag \in {<<"0">>, <<"1">>, <<"2">>}}

FnStart ==
  /\ parsed = NotParsed
  /\ fragments = NotCalled
  /\ reassembled = NotCalled
  /\ round_trip = <<>>
  /\ refragmented = NotRefragmented

\* Either a datagram and an MTU for the codec and the fragmenter, or a
\* collection of fragments for the reassembler, or a wire text for the
\* parser.
FnInit ==
  /\ FnStart
  /\ RouterStart
  /\ TableIdle
  /\ \/ /\ step = "datagram"
        /\ ip_header \in Datagrams
        /\ mtu \in MtuSet(ip_header)
        /\ ip_packet = <<>>
        /\ fragment_list = <<>>
     \/ /\ step = "collection"
        /\ ip_header = NoHeader
        /\ mtu = 0
        /\ ip_packet = <<>>
        /\ fragment_list \in Collections
     \/ /\ step = "wire"
        /\ ip_header = NoHeader
        /\ mtu = 0
        /\ ip_packet \in WireTexts
        /\ fragment_list = <<>>

CallToString ==
  /\ step = "datagram"
  /\ step' = "to_string"
  /\ ip_packet' = to_string(ip_header)
  /\ UNCHANGED <<ip_header, mtu, parsed, fragments, fragment_list, reassembled,
               round_trip, refragmented>>
  /\ UNCHANGED <<router_vars, table_vars>>

CallParse ==
  /\ step = "to_string"
  /\ step' = "parse_ip_header"
  /\ parsed' = parse_ip_header(ip_packet)
  /\ UNCHANGED <<ip_header, mtu, ip_packet, fragments, fragment_list, reassembled,
               round_trip, refragmented>>
  /\ UNCHANGED <<router_vars, table_vars>>

CallFragment ==
  /\ step = "to_string"
  /\ step' = "fragment_ip_packet"
  /\ fragments' = fragment_ip_packet(ip_packet, mtu)
  /\ UNCHANGED <<ip_header, mtu, ip_packet, parsed, fragment_list, reassembled,
               round_trip, refragmented>>
  /\ UNCHANGED <<router_vars, table_vars>>

\* The reassembler on the list the fragmenter returned.
CallReassembleFragments ==
  /\ step = "fragment_ip_packet"
  /\ fragments.kind = "return"
  /\ step' = "reassemble_fragments"
  /\ fragment_list' = fragments.value
  /\ reassembled' = reassemble_ip_packet(fragments.value)
  /\ UNCHANGED <<ip_header, mtu, ip_packet, parsed, fragments,
               round_trip, refragmented>>
  /\ UNCHANGED <<router_vars, table_vars>>

\* The reassembler on the list of one datagram.
CallReassembleWhole ==
  /\ step = "to_string"
  /\ step' = "reassemble_whole"
  /\ fragment_list' = <<ip_packet>>
  /\ reassembled' = reassemble_ip_packet(<<ip_packet>>)
  /\ UNCHANGED <<ip_header, mtu, ip_packet, parsed, fragments,
               round_trip, refragmented>>
  /\ UNCHANGED <<router_vars, table_vars>>

\* The train with its fragment at index replaced by the fragments of it.
Replaced(list, index, sub) ==
  SubSeq(list, 1, index - 1) \o sub \o SubSeq(list, index + 1, Len(list))

\* What a later hop with a smaller MTU and the destination do: the hop
\* fragments the fragment at index, the destination reassembles the train.
refragment_reassemble(index, link_mtu, sub, list) ==
  [index |-> index, mtu |-> link_mtu, fragments |-> sub,
   fragment_list |-> list, reassembled |-> reassemble_ip_packet(list)]

refragment(list, index, link_mtu, sub) ==
  IF sub.kind # "return"
  THEN [index |-> index, mtu |-> link_mtu, fragments |-> sub,
        fragment_list |-> <<>>, reassembled |-> NotCalled]
  ELSE refragment_reassemble(index, link_mtu, sub,
                             Replaced(list, index, sub.value))

\* The MTUs under mtu that leave room for the header of a fragment and one
\* payload byte.
SmallerMtus(fragment) ==
  (minimum_header_bytes(parse_ip_header(fragment).hdr) + 1)..(mtu - 1)

\* One fragment of the list the fragmenter returned is fragmented again
\* for a smaller MTU, and the reassembler is called on the list.
CallRefragment ==
  /\ step = "reassemble_fragments"
  /\ step' = "refragment"
  /\ \E index \in 1..Len(fragment_list) :
       \E link_mtu \in SmallerMtus(fragment_list[index]) :
         refragmented' =
           refragment(fragment_list, index, link_mtu,
                      fragment_ip_packet(fragment_list[index], link_mtu))
  /\ UNCHANGED <<ip_header, mtu, ip_packet, parsed, fragments, fragment_list,
                 reassembled, round_trip>>
  /\ UNCHANGED <<router_vars, table_vars>>

\* The reassembler on a collection of its own.
CallReassemble ==
  /\ step = "collection"
  /\ step' = "reassemble_ip_packet"
  /\ reassembled' = reassemble_ip_packet(fragment_list)
  /\ UNCHANGED <<ip_header, mtu, ip_packet, parsed, fragments, fragment_list,
               round_trip, refragmented>>
  /\ UNCHANGED <<router_vars, table_vars>>

\* The parser on a wire text of its own.
CallParseText ==
  /\ step = "wire"
  /\ step' = "parse_text"
  /\ parsed' = parse_ip_header(ip_packet)
  /\ UNCHANGED <<ip_header, mtu, ip_packet, fragments, fragment_list, reassembled,
               round_trip, refragmented>>
  /\ UNCHANGED <<router_vars, table_vars>>

\* to_string of the IPHeader the parser returned.
CallRoundTrip ==
  /\ step \in {"parse_ip_header", "parse_text"}
  /\ parsed.exc = "none"
  /\ step' = "round_trip"
  /\ round_trip' = to_string(parsed.hdr)
  /\ UNCHANGED <<ip_header, mtu, ip_packet, parsed, fragments, fragment_list,
               reassembled, refragmented>>
  /\ UNCHANGED <<router_vars, table_vars>>

FnNext ==
  \/ CallToString
  \/ CallParse
  \/ CallParseText
  \/ CallRoundTrip
  \/ CallFragment
  \/ CallReassembleFragments
  \/ CallReassembleWhole
  \/ CallRefragment
  \/ CallReassemble

FnSpec == FnInit /\ [][FnNext]_vars

\* ------------------------------------------------ the routing table alone
\* RtSpec queries one RoundRobinRoutingTable for destinations in any order.

\* Most calls of next_hop on the table.
MaxQueries == 6

NetIP == <<"1", "0", ".", "0", ".", "0", ".", "0">>

RouteFiles == {"A", "B", "C"}

\* Destinations with three, two, one and no route in one file or another.
Destinations ==
  {[ip |-> RouterIP, port |-> 8002], [ip |-> LoopIP, port |-> 9000],
   [ip |-> NetIP, port |-> 8003], [ip |-> FarIP, port |-> 9000]}

RECURSIVE Calls(_, _)
Calls(history, dests) ==
  IF dests = {} THEN 0
  ELSE Len(history[CHOOSE d \in dests : TRUE])
         + Calls(history, dests \ {CHOOSE d \in dests : TRUE})

RtInit ==
  /\ FnIdle
  /\ RouterStart
  /\ routing_table_file_name \in RouteFiles
  /\ table = EmptyTable
  /\ returned = [d \in {} |-> <<>>]

\* What the call next_hop(round_robin_routing_table, d) leaves behind.
answered(d, hop) ==
  /\ table' = hop.table
  /\ returned' =
       [e \in DOMAIN returned \cup {d} |->
          IF e = d
          THEN (IF d \in DOMAIN returned THEN returned[d] ELSE <<>>)
                 \o <<[none |-> hop.none, value |-> hop.value]>>
          ELSE returned[e]]

Query ==
  /\ Calls(returned, DOMAIN returned) < MaxQueries
  /\ \E d \in Destinations :
       answered(d, next_hop(table, routing_table_lines(routing_table_file_name), d))
  /\ UNCHANGED routing_table_file_name
  /\ UNCHANGED <<fn_vars, router_vars>>

RtNext == Query

RtSpec == RtInit /\ [][RtNext]_vars

\* ------------------------------------------------- a train at its router
\* TrainSpec fragments a whole datagram for router A, sends the fragments
\* to A as a router before A does, and lets A receive them in any order.

\* Longest train sent to the router.
MaxTrain == 4

TrainInit ==
  /\ FnStart
  /\ RouterStart
  /\ TableIdle
  /\ step = "datagram"
  /\ ip_header \in {d \in Datagrams : d.offset = 0 /\ ~d.flag}
  /\ mtu \in MtuSet(ip_header)
  /\ ip_packet = <<>>
  /\ fragment_list = <<>>

\* router.py:105-106 of the router before A: every fragment of the list is
\* sent to the next hop, here A.
SendTrain ==
  /\ step = "fragment_ip_packet"
  /\ fragments.kind = "return"
  /\ Len(fragments.value) \in 1..MaxTrain
  /\ step' = "train"
  /\ net' = Delivered([i \in 1..Len(fragments.value) |->
                         [to |-> router_address("A"),
                          data |-> Encode(fragments.value[i])]], 1)
  /\ UNCHANGED <<ip_header, mtu, ip_packet, parsed, fragments, fragment_list,
                 reassembled, round_trip, refragmented>>
  /\ UNCHANGED <<round_robin_routing_table, fragment_dict, status, sent_count,
                 last, arrived>>
  /\ UNCHANGED table_vars

\* One iteration of the receive loop of A on a fragment of the train.
Arrive ==
  /\ step = "train"
  /\ recvfrom("A")
  /\ arrived' = Append(arrived, last')
  /\ UNCHANGED sent_count
  /\ UNCHANGED <<fn_vars, table_vars>>

TrainNext ==
  \/ CallToString
  \/ CallFragment
  \/ SendTrain
  \/ Arrive

TrainSpec == TrainInit /\ [][TrainNext]_vars

\* --------------------------------------------- claims on the pure functions

\* The precondition of the fragmenter's contract: the MTU leaves room for
\* the header of the input and one payload byte.
MtuAdmits == mtu >= minimum_header_bytes(ip_header) + 1

\* What reassemble_ip_packet returned, parsed.
Reassembled == parse_ip_header(reassembled.value)

\* C1: for a whole datagram d (offset 0, more_fragments false) and an MTU M
\* with M >= minimum_header_bytes(d) + 1, fragment_ip_packet returns and
\* reassemble_ip_packet of its list returns a datagram equal to d in
\* (dst_ip, dst_port, ttl, id, payload), with offset 0, more_fragments false
\* and size the eight-digit byte length of d.payload.
C1_FragmentReassembleIdentity ==
  (/\ step \in {"fragment_ip_packet", "reassemble_fragments"}
   /\ MtuAdmits
   /\ ip_header.offset = 0
   /\ ~ip_header.flag)
  => /\ fragments.kind = "return"
     /\ step = "reassemble_fragments" =>
          /\ reassembled.kind = "return"
          /\ ~reassembled.none
          /\ Reassembled.exc = "none"
          /\ Reassembled.hdr.ip_address = ip_header.ip_address
          /\ Reassembled.hdr.port = ip_header.port
          /\ Reassembled.hdr.ttl = ip_header.ttl
          /\ Reassembled.hdr.id = ip_header.id
          /\ Reassembled.hdr.msg = ip_header.msg
          /\ Reassembled.hdr.offset = 0
          /\ ~Reassembled.hdr.flag
          /\ Reassembled.hdr.size = generate_ip_header_size(ByteLen(ip_header.msg))

\* C1's failing case: a whole datagram and an MTU that admits it, on which
\* fragment_ip_packet never returns.
C1_Witness ==
  /\ step = "fragment_ip_packet"
  /\ MtuAdmits
  /\ ip_header.offset = 0
  /\ ~ip_header.flag
  /\ fragments.kind = "diverge"

\* C2: when M >= minimum_header_bytes(d) + 1, every fragment in the list
\* fragment_ip_packet(encode(d), M) returns has wire byte length <= M.
C2_FragmenterMtuBound ==
  (step = "fragment_ip_packet" /\ MtuAdmits /\ fragments.kind = "return")
  => \A i \in 1..Len(fragments.value) : ByteLen(fragments.value[i]) <= mtu

\* C2's case: a datagram too long for the MTU was split in three or more
\* fragments.
C2_Witness ==
  /\ step = "fragment_ip_packet"
  /\ MtuAdmits
  /\ ByteLen(ip_packet) > mtu
  /\ fragments.kind = "return"
  /\ Len(fragments.value) >= 3

\* C3: parse_ip_header(d.to_string()) = d field for field, for every
\* datagram d of the data model, a payload with commas included.
C3_CodecRoundTrip ==
  step = "parse_ip_header" => parsed.exc = "none" /\ parsed.hdr = ip_header

\* C3's failing case: of the payload "a,b" the parser keeps "a".
C3_Witness ==
  /\ step = "parse_ip_header"
  /\ ip_header.msg = <<"a", ",", "b">>
  /\ parsed.exc = "none"
  /\ parsed.hdr.msg = <<"a">>

\* The permutation that puts headers in ascending order of offset and, for
\* equal offsets, in the order they have.
AscendingOrder(hdr) ==
  CHOOSE f \in [1..Len(hdr) -> 1..Len(hdr)] :
    /\ \A i, j \in 1..Len(hdr) : i # j => f[i] # f[j]
    /\ \A i, j \in 1..Len(hdr) :
         i < j => \/ hdr[f[i]].offset < hdr[f[j]].offset
                  \/ /\ hdr[f[i]].offset = hdr[f[j]].offset
                     /\ f[i] < f[j]

Permuted(hdr, f) == [i \in 1..Len(hdr) |-> hdr[f[i]]]

\* The headers of the fragments of a collection, in its order.
RECURSIVE Headers(_)
Headers(list) ==
  IF list = <<>> THEN <<>>
  ELSE <<parse_ip_header(Head(list)).hdr>> \o Headers(Tail(list))

Sorted(hdr) == Permuted(hdr, AscendingOrder(hdr))

\* The fragments of a collection, parsed, in ascending order of offset.
Ascending(list) == Sorted(Headers(list))

\* The completeness rules on a sorted list of fragments.
CompleteSorted(s) ==
  /\ s[1].offset = 0
  /\ \A i \in 1..(Len(s) - 1) :
       s[i].offset + ParseInt(s[i].size).val = s[i + 1].offset
  /\ ~s[Len(s)].flag

\* The completeness rules of the reassembler.
Complete(list) == CompleteSorted(Ascending(list))

\* C6: for a non-empty collection of fragments, reassemble_ip_packet
\* returns a result other than None if and only if, in ascending order of
\* offset, the first offset is 0, every consecutive pair (a, b) has
\* a.offset + int(a.size) = b.offset, and the last flag is 0.
C6_ReassemblerCompleteness ==
  step = "reassemble_ip_packet"
  => /\ reassembled.kind = "return"
     /\ ~reassembled.none <=> Complete(fragment_list)

\* C6's case: a collection of three fragments, out of order, is complete.
C6_Witness ==
  /\ step = "reassemble_ip_packet"
  /\ Len(fragment_list) = 3
  /\ parse_ip_header(fragment_list[1]).hdr.offset = 2
  /\ ~reassembled.none

\* C6's other case: a collection with a gap or without its end is refused.
C6_WitnessIncomplete ==
  /\ step = "reassemble_ip_packet"
  /\ Len(fragment_list) >= 2
  /\ reassembled.none

\* The flag field of a datagram in wire text: the seventh part.
WireFlag(text) == Split(text, ",")[7]

\* The packet did not fit the MTU and fragment_ip_packet returned its list.
Fragmented ==
  /\ step = "fragment_ip_packet"
  /\ ByteLen(ip_packet) > mtu
  /\ fragments.kind = "return"

\* C11: in the list fragment_ip_packet returns when fragmentation occurs,
\* every fragment but the last has flag 1, and the last has flag 0 if and
\* only if the input had more_fragments false; the fragments of a fragment
\* with flag 1 all have flag 1.
C11_LastFragmentFlag ==
  Fragmented
  => /\ \A i \in 1..(Len(fragments.value) - 1) :
          WireFlag(fragments.value[i]) = <<"1">>
     /\ fragments.value # <<>> =>
          /\ WireFlag(fragments.value[Len(fragments.value)]) \in {<<"0">>, <<"1">>}
          /\ WireFlag(fragments.value[Len(fragments.value)]) = <<"0">>
               <=> ~ip_header.flag

\* C11's case: a whole datagram split in three or more fragments, the last
\* with flag 0.
C11_Witness ==
  /\ Fragmented
  /\ ~ip_header.flag
  /\ Len(fragments.value) >= 3
  /\ WireFlag(fragments.value[Len(fragments.value)]) = <<"0">>

\* C11's other case: a fragment with flag 1 split in fragments with flag 1.
C11_WitnessFragment ==
  /\ Fragmented
  /\ ip_header.flag
  /\ Len(fragments.value) >= 2
  /\ WireFlag(fragments.value[Len(fragments.value)]) = <<"1">>

\* C13: if the wire byte length of W is at most M, fragment_ip_packet(W, M)
\* returns the list [W], W unchanged.
C13_FitIdempotence ==
  (step = "fragment_ip_packet" /\ ByteLen(ip_packet) <= mtu)
  => fragments = Return(<<ip_packet>>)

\* C13's case: a datagram with a payload, one byte shorter than the MTU or
\* as long as it, came back as it was.
C13_Witness ==
  /\ step = "fragment_ip_packet"
  /\ ip_header.msg # <<>>
  /\ ByteLen(ip_packet) \in {mtu - 1, mtu}
  /\ fragments = Return(<<ip_packet>>)

\* C13's other case: a datagram whose payload has a comma, which the parser
\* would cut, fits and came back as it was.
C13_WitnessComma ==
  /\ step = "fragment_ip_packet"
  /\ ip_header.msg = <<"a", ",", "b">>
  /\ ByteLen(ip_packet) <= mtu
  /\ fragments = Return(<<ip_packet>>)

\* C14: for every wire string s of the eight-field form,
\* parse_ip_header(s).to_string() = s.
C14_WireRoundTrip == step = "round_trip" => round_trip = ip_packet

\* C14's failing case: of the wire text of a datagram with payload "a,b"
\* the round trip gives back the text without its last two characters.
C14_Witness ==
  /\ step = "round_trip"
  /\ ip_header.msg = <<"a", ",", "b">>
  /\ ip_packet = round_trip \o <<",", "b">>

\* C14's other failing case: a wire text with a port written 08001 comes
\* back with the port written 8001.
C14_WitnessLeadingZero ==
  /\ step = "round_trip"
  /\ Split(ip_packet, ",")[2] = <<"0", "8", "0", "0", "1">>
  /\ Split(round_trip, ",")[2] = <<"8", "0", "0", "1">>

\* C14 on the texts to_string writes for payloads without a comma.
C14_WithoutComma ==
  (/\ step = "round_trip"
   /\ ip_header # NoHeader
   /\ \A i \in 1..Len(ip_header.msg) : ip_header.msg[i] # ",")
  => round_trip = ip_packet

\* Whether the input datagram is whole: offset 0 and more_fragments false.
Whole == ip_header.offset = 0 /\ ~ip_header.flag

WithoutComma == \A i \in 1..Len(ip_header.msg) : ip_header.msg[i] # ","

\* C15: for every well-formed wire datagram W with offset 0, flag 0 and
\* size the byte length of its payload, reassemble_ip_packet([W]) = W.
C15_SingleFragmentReassembly ==
  (step = "reassemble_whole" /\ Whole) => reassembled = Return(ip_packet)

\* C15's failing case: the datagram with payload "a,b" comes back with
\* payload "a" and size 1.
C15_Witness ==
  /\ step = "reassemble_whole"
  /\ Whole
  /\ ip_header.msg = <<"a", ",", "b">>
  /\ reassembled =
       Return(to_string(Datagram(ip_header.ip_address, ip_header.port,
                                 ip_header.ttl, ip_header.id, 0, FALSE, <<"a">>)))

\* C15 on the datagrams whose payload has no comma.
C15_WithoutComma ==
  (step = "reassemble_whole" /\ Whole /\ WithoutComma)
  => reassembled = Return(ip_packet)

\* C16: for every datagram d and MTU M with M >= minimum_header_bytes(d) + 1
\* and a wire length over M, the loop of fragment_ip_packet takes at least
\* one payload byte in every iteration, also after the offset field of
\* later fragments has gained digits, so the call comes to an end.
C16_FragmentationTerminates ==
  (step = "fragment_ip_packet" /\ MtuAdmits /\ ByteLen(ip_packet) > mtu)
  => fragments.kind # "diverge"

\* C16's failing case: a fragment at offset 9 with two or more bytes and an
\* MTU of one byte over its header; the second fragment starts at offset
\* 10, its header fills the MTU, and the call never returns.
C16_Witness ==
  /\ step = "fragment_ip_packet"
  /\ ip_header.offset = 9
  /\ ByteLen(ip_header.msg) >= 2
  /\ mtu = minimum_header_bytes(ip_header) + 1
  /\ fragments.kind = "diverge"

\* The header bytes of the fragment that would carry the last payload byte.
LastHeaderBytes(d) ==
  ByteLen(fragment_header(d, d.offset + ByteLen(d.msg) - 1))

\* C16 with room for the longest header: when the MTU is over the header of
\* a fragment at the offset of the last payload byte, the call ends.
C16_RoomForEveryHeader ==
  (step = "fragment_ip_packet" /\ mtu >= LastHeaderBytes(ip_header) + 1)
  => fragments.kind # "diverge"

\* C19: for every fragment f of fragment_ip_packet(W, M1) and every smaller
\* MTU M2 that leaves room for the header of f and one payload byte,
\* fragment_ip_packet(f, M2) returns, and the train with f replaced by its
\* fragments is a collection on which reassemble_ip_packet does what it
\* does on fragment_ip_packet(W, M1): it accepts it when it accepts that
\* one, with the same result.
C19_Refragmentation ==
  step = "refragment"
  => /\ refragmented.fragments.kind = "return"
     /\ refragmented.reassembled = reassembled

\* C19's failing case: a fragment at offset 8 with three bytes, split again
\* for an MTU of one byte over its header, on which fragment_ip_packet
\* never returns.
C19_Witness ==
  /\ step = "refragment"
  /\ Whole
  /\ parse_ip_header(fragment_list[refragmented.index]).hdr.offset = 8
  /\ refragmented.mtu =
       minimum_header_bytes(parse_ip_header(fragment_list[refragmented.index]).hdr) + 1
  /\ refragmented.fragments.kind = "diverge"

\* C19 when the second fragmentation returns: the result is the same.
C19_WhenSplitReturns ==
  (step = "refragment" /\ refragmented.fragments.kind = "return")
  => refragmented.reassembled = reassembled

\* The case of C19_WhenSplitReturns: the middle fragment of a train of
\* three was split in two or more, and the datagram came back.
C19_WitnessSplit ==
  /\ step = "refragment"
  /\ Whole
  /\ Len(fragment_list) = 3
  /\ refragmented.index = 2
  /\ Len(refragmented.fragments.value) >= 2
  /\ ~refragmented.reassembled.none
  /\ refragmented.reassembled = reassembled

\* The payload of a wire text: what follows its seventh comma.
RECURSIVE AfterCommas(_, _)
AfterCommas(text, n) ==
  IF n = 0 \/ text = <<>> THEN text
  ELSE AfterCommas(Tail(text), IF Head(text) = "," THEN n - 1 ELSE n)

WirePayload(text) == AfterCommas(text, 7)

\* The payloads of the texts of a list in list order, one after the other.
RECURSIVE InListOrder(_)
InListOrder(list) ==
  IF list = <<>> THEN <<>>
  ELSE WirePayload(Head(list)) \o InListOrder(Tail(list))

\* Whether a fragment has the address, ttl and id of the input, and as size
\* the eight digits of the byte length of its own payload.
Inherits(fields, text) ==
  /\ fields[1] = ip_header.ip_address
  /\ fields[2] = IntToStr(ip_header.port)
  /\ fields[3] = IntToStr(ip_header.ttl)
  /\ fields[4] = ip_header.id
  /\ Len(fields[6]) = 8
  /\ ParseInt(fields[6]).exc = "none"
  /\ ParseInt(fields[6]).val = ByteLen(WirePayload(text))

\* Whether a fragment starts where the one before it ends.
Follows(before, fields) ==
  ParseInt(fields[5]).val = ParseInt(before[5]).val + ParseInt(before[6]).val

\* What C20 says of the list fragment_ip_packet returned.
SplitStructure(list) ==
  /\ \A i \in 1..Len(list) : Inherits(Split(list[i], ","), list[i])
  /\ list # <<>> => ParseInt(Split(list[1], ",")[5]).val = ip_header.offset
  /\ \A i \in 1..(Len(list) - 1) :
       Follows(Split(list[i], ","), Split(list[i + 1], ","))
  /\ InListOrder(list) = ip_header.msg

\* C20: in the list fragment_ip_packet returns when len(W) > M, every
\* fragment has dst_ip, dst_port, ttl and id of the input and as size the
\* eight-digit byte length of its own payload; the offset of the first
\* fragment is that of the input, every next offset is the previous offset
\* plus the previous size, and the payloads in list order, one after the
\* other, are the payload of the input.
C20_SplitStructure == Fragmented => SplitStructure(fragments.value)

\* C20's failing case: the datagram with payload "a,b,cd" was split and
\* the payloads of its fragments make "a".
C20_Witness ==
  /\ Fragmented
  /\ ip_header.msg = <<"a", ",", "b", ",", "c", "d">>
  /\ InListOrder(fragments.value) = <<"a">>

\* C20 on the datagrams whose payload has no comma.
C20_WithoutComma ==
  (Fragmented /\ WithoutComma) => SplitStructure(fragments.value)

\* The case of C20_WithoutComma: a fragment at offset 9 split in three or
\* more fragments, the second at offset 10 or after.
C20_WitnessSplit ==
  /\ Fragmented
  /\ WithoutComma
  /\ ip_header.offset = 9
  /\ Len(fragments.value) >= 3
  /\ SplitStructure(fragments.value)

\* Whether the payload of the input has a character of more than one byte.
MultiByte == \E i \in 1..Len(ip_header.msg) : ip_header.msg[i] = EAcute

\* Whether the size of a fragment is the byte length of its payload.
SizeCountsBytes(text) ==
  ParseInt(Split(text, ",")[6]).val = ByteLen(WirePayload(text))

\* What C24 says of the fragments returned and of what the reassembler
\* makes of them.
BytesKept ==
  /\ \A i \in 1..Len(fragments.value) : SizeCountsBytes(fragments.value[i])
  /\ (step = "reassemble_fragments" /\ Whole)
     => /\ reassembled.kind = "return"
        /\ ~reassembled.none
        /\ Encode(WirePayload(reassembled.value)) = Encode(ip_header.msg)

\* C24: fragmenting a datagram whose payload has multi-byte characters
\* succeeds, also when the MTU puts the end of a fragment inside a
\* character; the size of each fragment counts payload bytes, and the
\* reassembler makes the bytes of the original payload of the fragments.
C24_MultiByteSplit ==
  (/\ step \in {"fragment_ip_packet", "reassemble_fragments"}
   /\ MtuAdmits
   /\ MultiByte)
  => fragments.kind = "return" /\ BytesKept

\* C24's failing case: the payload "a" and a two-byte character with an
\* MTU of two bytes over the header; the first fragment would end inside
\* the character, and the call raises UnicodeDecodeError.
C24_Witness ==
  /\ step = "fragment_ip_packet"
  /\ Whole
  /\ ip_header.msg = <<"a", EAcute>>
  /\ mtu = minimum_header_bytes(ip_header) + 2
  /\ fragments = Raise("UnicodeDecodeError")

\* C24 when the call returns: the fragments end between characters, the
\* sizes count bytes and the payload comes back.
C24_WhenSplitReturns ==
  (/\ step \in {"fragment_ip_packet", "reassemble_fragments"}
   /\ MultiByte
   /\ fragments.kind = "return")
  => BytesKept

\* The case of C24_WhenSplitReturns: two two-byte characters in two
\* fragments of two bytes, and the payload back.
C24_WitnessSplit ==
  /\ step = "reassemble_fragments"
  /\ Whole
  /\ ip_header.msg = <<EAcute, EAcute>>
  /\ Len(fragments.value) = 2
  /\ BytesKept

\* --------------------------------------------- claims on the routing table

\* The pair ((next_hop_ip, next_hop_port), link_mtu) of a line.
RouteOf(routing_table_line) ==
  [forward_address |-> [ip   |-> routing_table_line.landing_ip,
                        port |-> routing_table_line.landing_port],
   link_mtu |-> routing_table_line.mtu]

\* The lines of a route file that cover the destination, in file order.
MatchingLines(name, d) ==
  SelectSeq([i \in 1..Len(routing_table_lines(name)) |->
               parse_routing_table_line(routing_table_lines(name)[i])],
            LAMBDA l : line_matches(l, d))

RoutesOf(lines) == [i \in 1..Len(lines) |-> RouteOf(lines[i])]

\* The ring of a destination: the routes of its lines, in file order.
Ring(name, d) == RoutesOf(MatchingLines(name, d))

\* How many of the calls for a destination returned a route.
Times(history, route) ==
  Cardinality({N \in 1..Len(history) : history[N].value = route})

Rotates(history, ring) ==
  Len(ring) >= 1
  =>
  /\ \A N \in 1..Len(history) :
       /\ ~history[N].none
       /\ history[N].value = ring[((N - 1) % Len(ring)) + 1]
  /\ \A j \in 1..Len(ring) :
       Times(history, ring[j]) \in
         {Len(history) \div Len(ring),
          (Len(history) + Len(ring) - 1) \div Len(ring)}

\* C5: for a destination D whose ring has n >= 1 entries, the Nth call of
\* next_hop(D) returns the ((N-1) mod n)-th entry of the ring in route-file
\* order, whatever calls for other destinations come between; so after k
\* calls every entry has been returned floor(k/n) or ceil(k/n) times and
\* the first one returned is the first matching line of the file.
C5_RoundRobinRotation ==
  \A d \in DOMAIN returned :
    Rotates(returned[d], Ring(routing_table_file_name, d))

\* C5's case: a ring of three entries has gone round and started again,
\* with calls for another destination in between.
C5_Witness ==
  \E d \in DOMAIN returned :
    /\ Len(Ring(routing_table_file_name, d)) = 3
    /\ Len(returned[d]) >= 4
    /\ \E e \in DOMAIN returned : e # d /\ Len(returned[e]) >= 1

\* Whether an address lies in a CIDR network, read from the texts: the
\* address and the network agree on the bits of the prefix, so the network
\* address and the broadcast address are inside.
SamePrefix(address, network, size) == address \div size = network \div size

InsideNetwork(ip, cidr_parts) ==
  SamePrefix(QuadToInt(Split(ip, "."), 0),
             QuadToInt(Split(cidr_parts[1], "."), 0),
             2 ^ (32 - ParseInt(cidr_parts[2]).val))

\* Whether the fields of a route line cover a destination: its address is
\* inside the network and its port within the range, both ends included.
Covers(fields, d) ==
  /\ InsideNetwork(d.ip, Split(fields[1], "/"))
  /\ ParseInt(fields[2]).val <= d.port
  /\ d.port <= ParseInt(fields[3]).val

\* The pair ((next_hop_ip, next_hop_port), link_mtu) the fields name.
PairOf(fields) ==
  [forward_address |-> [ip |-> fields[4], port |-> ParseInt(fields[5]).val],
   link_mtu |-> ParseInt(fields[6]).val]

\* The pairs of the lines of a file that cover a destination, in file order.
RECURSIVE Selected(_, _)
SelectedNext(fields, d, rest) ==
  IF Covers(fields, d) THEN <<PairOf(fields)>> \o rest ELSE rest

Selected(lines, d) ==
  IF lines = <<>> THEN <<>>
  ELSE SelectedNext(Split(Head(lines), " "), d, Selected(Tail(lines), d))

NeverARoute(history, selected) ==
  selected = <<>> => \A N \in 1..Len(history) : history[N].none

\* C12: the ring installed on the first query for (ip, port) consists of
\* exactly the pairs ((next_hop_ip, next_hop_port), link_mtu) of the lines
\* whose CIDR network holds ip (network and broadcast address included) and
\* whose port range holds port (both ends included), in file order; when no
\* line matches, every query for the destination yields None.
C12_RouteSelection ==
  /\ DOMAIN table = DOMAIN returned
  /\ \A d \in DOMAIN table :
       /\ table[d].array =
            Selected(routing_table_lines(routing_table_file_name), d)
       /\ NeverARoute(returned[d],
                      Selected(routing_table_lines(routing_table_file_name), d))

\* C12's case: the ring of a destination has the pairs of the first, third
\* and fourth line of the file, and the ring of a network address at the
\* final port of a range has one pair.
C12_Witness ==
  /\ [ip |-> RouterIP, port |-> 8002] \in DOMAIN table
  /\ Len(table[[ip |-> RouterIP, port |-> 8002]].array) = 3
  /\ table[[ip |-> RouterIP, port |-> 8002]].array[2].link_mtu = 60
  /\ [ip |-> NetIP, port |-> 8003] \in DOMAIN table

\* C12's other case: a destination no line covers was queried twice.
C12_WitnessNoRoute ==
  \E d \in DOMAIN table :
    /\ table[d].array = <<>>
    /\ Len(returned[d]) >= 2
    /\ \A N \in 1..Len(returned[d]) : returned[d][N].none

\* Whether the step is a call of next_hop for the destination.
Queried(d) ==
  /\ d \in DOMAIN returned'
  /\ Len(returned'[d]) = (IF d \in DOMAIN returned THEN Len(returned[d]) ELSE 0) + 1

\* What C22 says of one call of next_hop.
CacheStep ==
  /\ \A e \in DOMAIN table :
       /\ e \in DOMAIN table'
       /\ table'[e].array = table[e].array
       /\ table'[e].n = table[e].n
       /\ ~Queried(e) => table'[e] = table[e]
  /\ \A e \in DOMAIN table' \ DOMAIN table :
       /\ Queried(e)
       /\ e \notin DOMAIN returned
  /\ \A e \in DOMAIN returned' : e \in DOMAIN table'

\* C22: a call next_hop(D) changes only the cursor of the ring of D and
\* leaves the ring and the cursor of every other destination as they were;
\* the ring of D is built on the first query for D, also when it is empty,
\* and later queries neither build it again nor change its order.
C22_PerDestinationCache == [][CacheStep]_vars

\* C22's case: the rings of two destinations are installed, one of them
\* empty and queried twice, the other with its cursor moved.
C22_Witness ==
  \E d, e \in DOMAIN table :
    /\ table[d].n >= 2
    /\ table[d].pointer # 0
    /\ table[e].n = 0
    /\ Len(returned[e]) >= 2

\* ---------------------------------------------------- claims on the router

\* The datagram of the last iteration, as parse_ip_header reads it.
Received == parse_ip_header(Decode(last.data).text)

WellFormed == last.router # "none" /\ Decode(last.data).exc = "none"
                /\ Received.exc = "none"

ToSelf ==
  /\ Received.hdr.ip_address = router_IP(last.router)
  /\ Received.hdr.port = router_port(last.router)

\* The ttl of a datagram sent.
TtlOf(pkt) == parse_ip_header(Decode(pkt.data).text).hdr.ttl

\* C4: every fragment a router emits for a transit datagram received with
\* ttl = t carries ttl = t - 1.
C4_TtlDecrement ==
  (WellFormed /\ last.branch = "forwarded")
  => \A i \in 1..Len(last.sent) : TtlOf(last.sent[i]) = Received.hdr.ttl - 1

\* C4's failing case: a datagram was forwarded in two fragments that carry
\* the ttl it was received with.
C4_Witness ==
  /\ WellFormed
  /\ last.branch = "forwarded"
  /\ Len(last.sent) = 2
  /\ \A i \in 1..Len(last.sent) : TtlOf(last.sent[i]) = Received.hdr.ttl

\* The payloads of the fragments of a list, in ascending order of offset,
\* one after the other.
RECURSIVE Concatenated(_, _)
Concatenated(list, order) ==
  IF order = <<>> THEN <<>>
  ELSE WirePayload(list[Head(order)]) \o Concatenated(list, Tail(order))

ReassembledPayload(list) == Concatenated(list, AscendingOrder(Headers(list)))

\* groups[id] of the last iteration with the text received appended.
Group ==
  appended(last.fragment_dict, Received.hdr.id, Decode(last.data).text)

Others == DOMAIN last.fragment_dict \ {Received.hdr.id}

\* C7: a datagram with ttl > 0 addressed to the router is appended to
\* groups[id]; if the list is then complete, groups[id] is removed in the
\* same step and the reassembled payload is printed once; otherwise
\* groups[id] holds every fragment received so far and nothing is printed.
\* Nothing is sent and the other groups stay as they were.
C7_LocalDelivery ==
  (WellFormed /\ Received.hdr.ttl > 0 /\ ToSelf)
  => /\ last.exc = "none"
     /\ last.sent = <<>>
     /\ \A k \in Others :
          /\ k \in DOMAIN fragment_dict[last.router]
          /\ fragment_dict[last.router][k] = last.fragment_dict[k]
     /\ IF Complete(Group)
        THEN /\ Received.hdr.id \notin DOMAIN fragment_dict[last.router]
             /\ last.stdout =
                  <<[kind |-> "msg", text |-> ReassembledPayload(Group)]>>
        ELSE /\ Received.hdr.id \in DOMAIN fragment_dict[last.router]
             /\ fragment_dict[last.router][Received.hdr.id] = Group
             /\ last.stdout = <<>>

\* C7's failing case: a complete datagram for the router was printed and
\* its group removed, and what was printed is not its payload.
C7_Witness ==
  /\ WellFormed
  /\ ToSelf
  /\ last.branch = "delivered"
  /\ Received.hdr.id \notin DOMAIN fragment_dict[last.router]
  /\ last.stdout # <<[kind |-> "msg", text |-> ReassembledPayload(Group)]>>

\* Whether no line of the route file of the router covers the destination
\* of the datagram received.
NoRoute ==
  Ring(last.router, [ip |-> Received.hdr.ip_address,
                     port |-> Received.hdr.port]) = <<>>

\* C8: a transit datagram (ttl > 0, not addressed to the router) without a
\* matching route is dropped: nothing is sent, groups are unchanged, a line
\* that says there is no route is printed, and the router goes on running.
C8_NoRouteHandling ==
  (WellFormed /\ Received.hdr.ttl > 0 /\ ~ToSelf /\ NoRoute)
  => /\ last.exc = "none"
     /\ status[last.router] = "running"
     /\ last.sent = <<>>
     /\ fragment_dict[last.router] = last.fragment_dict
     /\ Len(last.stdout) = 1
     /\ last.stdout[1].kind = "no route"

\* C8's failing case: the datagram without route ended the router with a
\* TypeError, nothing printed.
C8_Witness ==
  /\ WellFormed
  /\ ~ToSelf
  /\ NoRoute
  /\ last.exc = "TypeError"
  /\ last.stdout = <<>>
  /\ status[last.router] = "raised"

\* Whether a text fails to parse: fewer than seven commas, or a port, ttl
\* or offset that is no number.
Malformed(text) ==
  \/ Len(Split(text, ",")) < 8
  \/ \E k \in {2, 3, 5} : ParseInt(Split(text, ",")[k]).exc # "none"

\* C9: a packet that does not parse is dropped: groups and routing cursors
\* are unchanged, nothing is sent, and the router goes on running.
C9_MalformedDropped ==
  (/\ last.router # "none"
   /\ Decode(last.data).exc = "none"
   /\ Malformed(Decode(last.data).text))
  => /\ last.exc = "none"
     /\ status[last.router] = "running"
     /\ last.sent = <<>>
     /\ fragment_dict[last.router] = last.fragment_dict
     /\ round_robin_routing_table[last.router] = last.round_robin_routing_table

\* C9's failing case: a packet of four fields ended the router with an
\* IndexError.
C9_Witness ==
  /\ last.router # "none"
  /\ Len(Split(Decode(last.data).text, ",")) = 4
  /\ last.exc = "IndexError"
  /\ status[last.router] = "raised"

\* C10: a datagram received with ttl <= 0, addressed to the router or to
\* another node, is dropped silently: nothing is sent, nothing is printed,
\* groups and routing cursors are unchanged, the datagram is consumed and
\* the router goes on running.
C10_TtlExpiryDrop ==
  (WellFormed /\ Received.hdr.ttl <= 0)
  => /\ last.branch = "expired"
     /\ last.exc = "none"
     /\ status[last.router] = "running"
     /\ last.sent = <<>>
     /\ last.stdout = <<>>
     /\ fragment_dict[last.router] = last.fragment_dict
     /\ round_robin_routing_table[last.router] = last.round_robin_routing_table

\* C10's case: a datagram with ttl 0 for another node was dropped.
C10_Witness ==
  /\ WellFormed
  /\ Received.hdr.ttl = 0
  /\ ~ToSelf
  /\ last.branch = "expired"

\* C10's other case: a datagram with a negative ttl for the router itself
\* was dropped while a group was waiting for its fragments.
C10_WitnessNegative ==
  /\ WellFormed
  /\ Received.hdr.ttl < 0
  /\ ToSelf
  /\ last.branch = "expired"
  /\ DOMAIN fragment_dict[last.router] # {}

\* The ttl values the sender gives to the datagrams of an id.
InjectedTtl(id) ==
  {parse_ip_header(Decode(data).text).hdr.ttl :
     data \in {w \in Injectable :
                 /\ parse_ip_header(Decode(w).text).exc = "none"
                 /\ parse_ip_header(Decode(w).text).hdr.id = id}}

IdOf(pkt) == parse_ip_header(Decode(pkt.data).text).hdr.id

\* C17: a datagram injected with TTL = t > 0 is forwarded at most t times
\* in total and then dropped, in a network with a forwarding cycle too, so
\* that no datagram goes round for ever: of a datagram in flight that
\* routers have forwarded h times, h <= t, and it carries ttl t - h (a
\* datagram injected at A with TTL 1 reaches B with TTL 0).
C17_HopBudget ==
  \A pkt \in BagToSet(net) :
    \A t \in InjectedTtl(IdOf(pkt)) :
      t > 0 => pkt.hops <= t /\ TtlOf(pkt) = t - pkt.hops

\* C17's failing case: the datagram sent with ttl 2 to a destination that
\* A routes to B and B routes to A is in flight after three hops and still
\* carries ttl 2.
C17_Witness ==
  \E pkt \in BagToSet(net) :
    /\ IdOf(pkt) = <<"c">>
    /\ pkt.hops = 3
    /\ TtlOf(pkt) = 2
    /\ pkt.to = router_address("B")

\* The lines A has printed for the fragments of the train so far.
RECURSIVE Printed(_)
Printed(iterations) ==
  IF iterations = <<>> THEN <<>>
  ELSE Printed(SubSeq(iterations, 1, Len(iterations) - 1))
         \o iterations[Len(iterations)].stdout

AllArrived == Len(arrived) = Len(fragments.value)

\* What C18 says of the iterations of A on the train of the datagram.
DeliveredOnce ==
  /\ \A j \in 1..Len(arrived) : arrived[j].exc = "none"
  /\ IF AllArrived
     THEN /\ Printed(arrived) = <<[kind |-> "msg", text |-> ip_header.msg]>>
          /\ arrived[Len(arrived)].stdout # <<>>
          /\ ip_header.id \notin DOMAIN fragment_dict["A"]
     ELSE /\ Printed(arrived) = <<>>
          /\ Len(arrived) >= 1 => ip_header.id \in DOMAIN fragment_dict["A"]

\* C18: for the train fragment_ip_packet makes of a datagram with flag 0
\* addressed to the router, whatever the order in which the fragments
\* arrive, the original payload is delivered exactly once, at the step
\* where the last missing fragment arrives and not before, and groups[id]
\* is absent afterwards.
C18_ArrivalOrderIndependence == step = "train" => DeliveredOnce

\* C18's failing case: the train of the datagram with payload "a,b,cd" has
\* arrived and what A printed is "a".
C18_Witness ==
  /\ step = "train"
  /\ AllArrived
  /\ ip_header.msg = <<"a", ",", "b", ",", "c", "d">>
  /\ Printed(arrived) = <<[kind |-> "msg", text |-> <<"a">>]>>

\* C18 on the datagrams whose payload has no comma.
C18_WithoutComma == (step = "train" /\ WithoutComma) => DeliveredOnce

\* The case of C18_WithoutComma: a train of four fragments arrived with
\* its last fragment first and its first fragment last.
C18_WitnessLastFirst ==
  /\ step = "train"
  /\ WithoutComma
  /\ Len(fragments.value) = 4
  /\ AllArrived
  /\ arrived[1].data = Encode(fragments.value[4])
  /\ arrived[4].data = Encode(fragments.value[1])
  /\ Printed(arrived) = <<[kind |-> "msg", text |-> ip_header.msg]>>

\* C21: a received datagram addressed to the router never consults the
\* routing table and never sends a packet (no ring is installed, no cursor
\* advances); a transit datagram never creates, extends or removes an entry
\* of groups.
C21_BranchSeparation ==
  WellFormed
  => /\ ToSelf =>
          /\ last.sent = <<>>
          /\ round_robin_routing_table[last.router]
               = last.round_robin_routing_table
     /\ ~ToSelf => fragment_dict[last.router] = last.fragment_dict

\* C21's case: a datagram was forwarded while a group was waiting for its
\* fragments.
C21_Witness ==
  /\ WellFormed
  /\ ~ToSelf
  /\ last.branch = "forwarded"
  /\ DOMAIN last.fragment_dict # {}
  /\ fragment_dict[last.router] = last.fragment_dict

\* C21's other case: a datagram for the router was stored or delivered
\* after a ring had been installed in its routing table.
C21_WitnessLocal ==
  /\ WellFormed
  /\ ToSelf
  /\ last.branch \in {"stored", "delivered"}
  /\ DOMAIN last.round_robin_routing_table # {}
  /\ round_robin_routing_table[last.router] = last.round_robin_routing_table

\* Whether a list of fragments holds two with the same offset and a size
\* other than zero.
Repeated(hdr) ==
  \E i, j \in 1..Len(hdr) :
    /\ i < j
    /\ hdr[i].offset = hdr[j].offset
    /\ ParseInt(hdr[i].size).val # 0
    /\ ParseInt(hdr[j].size).val # 0

Blocked(dict, id) == id \in DOMAIN dict /\ Repeated(Headers(dict[id]))

\* What C23 says of one step: a blocked group stays, still blocked, and
\* the iteration of its router on a fragment of its id prints nothing.
BlockedStep ==
  \A r \in Routers :
    \A id \in DOMAIN fragment_dict[r] :
      Blocked(fragment_dict[r], id)
      => /\ Blocked(fragment_dict'[r], id)
         /\ (last'.router = r /\ last' # last
               /\ parse_ip_header(Decode(last'.data).text).hdr.id = id)
            => last'.stdout = <<>>

\* C23: once groups[id] holds two fragments with the same offset and a
\* nonzero size, no later arrival makes the list complete: the id is never
\* delivered and groups[id] is never removed.
C23_DuplicateBlocksTrain == [][BlockedStep]_vars

\* C23's case: the first fragment of a train arrived twice and then the
\* last one, which was stored: the group holds the whole train and stays.
C23_Witness ==
  /\ WellFormed
  /\ ToSelf
  /\ last.branch = "stored"
  /\ Blocked(last.fragment_dict, Received.hdr.id)
  /\ Received.hdr.offset = 2
  /\ Len(fragment_dict[last.router][Received.hdr.id]) = 3

\* C23 on the reassembler alone: a collection with two fragments of the
\* same offset and a nonzero size is refused.
C23_RepeatedRefused ==
  (step = "reassemble_ip_packet" /\ Repeated(Headers(fragment_list)))
  => reassembled = ReturnNone

\* The case of C23_RepeatedRefused: a collection of three fragments, two
\* of them the same, that would be complete without the second one.
C23_WitnessRefused ==
  /\ step = "reassemble_ip_packet"
  /\ Len(fragment_list) = 3
  /\ fragment_list[1] = fragment_list[2]
  /\ Repeated(Headers(fragment_list))
  /\ Complete(Tail(fragment_list))
  /\ reassembled = ReturnNone

====
